---- MODULE Spec2Model ----
(***************************************************************************)
(* Model of skills/playwright-skill/lib/proxy_wrapper.py: the local        *)
(* authenticating forward-proxy relay (listener, request dispatch,         *)
(* NO_PROXY bypass, Proxy-Authorization injection, CONNECT tunnels and     *)
(* plain-HTTP forwarding).                                                 *)
(*                                                                         *)
(* Text is modelled as sequences of one-character strings, so that         *)
(* splitting, case folding and prefix tests are computed as the code       *)
(* computes them.  Python's None is the tuple <<"None">> for text values   *)
(* and 0 for socket / port / thread handles.                               *)
(***************************************************************************)
EXTENDS Integers, Sequences, FiniteSets, TLC

None == <<"None">>
NoId == 0

(***************************************************************************)
(* Text helpers (Python str / bytes methods)                               *)
(***************************************************************************)
UpperChars == <<"A","B","C","D","E","F","G","H","I","J","K","L","M",
                "N","O","P","Q","R","S","T","U","V","W","X","Y","Z">>
LowerChars == <<"a","b","c","d","e","f","g","h","i","j","k","l","m",
                "n","o","p","q","r","s","t","u","v","w","x","y","z">>

LowerChar(c) ==
    IF \E i \in 1..26 : UpperChars[i] = c
    THEN LowerChars[CHOOSE i \in 1..26 : UpperChars[i] = c]
    ELSE c

UpperChar(c) ==
    IF \E i \in 1..26 : LowerChars[i] = c
    THEN UpperChars[CHOOSE i \in 1..26 : LowerChars[i] = c]
    ELSE c

\* str.lower()
Lower(s) == [i \in 1..Len(s) |-> LowerChar(s[i])]

\* str.upper()
Upper(s) == [i \in 1..Len(s) |-> UpperChar(s[i])]

\* str.startswith(p)
StartsWith(s, p) == Len(p) <= Len(s) /\ SubSeq(s, 1, Len(p)) = p

\* str.endswith(p)
EndsWith(s, p) == Len(p) <= Len(s) /\ SubSeq(s, Len(s) - Len(p) + 1, Len(s)) = p

\* s[i:] with a 0-based Python index i
From(s, i) == SubSeq(s, i + 1, Len(s))

\* s[:i] with a 0-based Python index i
Upto(s, i) == SubSeq(s, 1, IF i < Len(s) THEN i ELSE Len(s))

\* s.find(p): 0-based index of the first occurrence of p in s, -1 if none
Find(s, p) ==
    IF \E i \in 0..(Len(s) - Len(p)) : SubSeq(s, i + 1, i + Len(p)) = p
    THEN CHOOSE i \in 0..(Len(s) - Len(p)) :
            /\ SubSeq(s, i + 1, i + Len(p)) = p
            /\ \A j \in 0..(i - 1) : SubSeq(s, j + 1, j + Len(p)) # p
    ELSE -1

\* s.rfind(p)
RFind(s, p) ==
    IF \E i \in 0..(Len(s) - Len(p)) : SubSeq(s, i + 1, i + Len(p)) = p
    THEN CHOOSE i \in 0..(Len(s) - Len(p)) :
            /\ SubSeq(s, i + 1, i + Len(p)) = p
            /\ \A j \in (i + 1)..(Len(s) - Len(p)) : SubSeq(s, j + 1, j + Len(p)) # p
    ELSE -1

\* p in s
Contains(s, p) == Find(s, p) # -1

\* s.split(p): the list of pieces between the occurrences of p
RECURSIVE Split(_, _)
Split(s, p) ==
    LET i == Find(s, p)
    IN  IF i = -1 THEN << s >>
        ELSE << SubSeq(s, 1, i) >> \o Split(From(s, i + Len(p)), p)

\* s.split(p, 1): at most one split
Split1(s, p) ==
    LET i == Find(s, p)
    IN  IF i = -1 THEN << s >>
        ELSE << SubSeq(s, 1, i), From(s, i + Len(p)) >>

\* s.rstrip('\r\n'): drop every trailing CR or LF character
RECURSIVE RStripCRLF(_)
RStripCRLF(s) ==
    IF s # <<>> /\ s[Len(s)] \in {"\r", "\n"}
    THEN RStripCRLF(SubSeq(s, 1, Len(s) - 1))
    ELSE s

\* str.strip(): drop leading and trailing blanks
RECURSIVE Strip(_)
Strip(s) ==
    IF s # <<>> /\ s[1] \in {" ", "\t", "\r", "\n"} THEN Strip(Tail(s))
    ELSE IF s # <<>> /\ s[Len(s)] \in {" ", "\t", "\r", "\n"}
         THEN Strip(SubSeq(s, 1, Len(s) - 1))
         ELSE s

\* the concatenation of a list of texts
IsPrefix(p, s) == Len(p) <= Len(s) /\ SubSeq(s, 1, Len(p)) = p

CRLF == <<"\r", "\n">>
CRLFCRLF == <<"\r", "\n", "\r", "\n">>

(***************************************************************************)
(* ipaddress.ip_address: IPv4 dotted quads and IPv6 hextet notation with   *)
(* "::" compression.  The result is <<version, groups>>, or None where the *)
(* library raises ValueError.  Embedded IPv4 tails and zone ids of IPv6    *)
(* literals are outside the modelled input alphabet.                       *)
(***************************************************************************)
Digits == <<"0","1","2","3","4","5","6","7","8","9">>
HexDigits == <<"0","1","2","3","4","5","6","7","8","9","a","b","c","d","e","f">>

IsDigit(c) == \E i \in 1..10 : Digits[i] = c
IsHexDigit(c) == \E i \in 1..16 : HexDigits[i] = LowerChar(c)
DigitVal(c) == (CHOOSE i \in 1..10 : Digits[i] = c) - 1
HexVal(c) == (CHOOSE i \in 1..16 : HexDigits[i] = LowerChar(c)) - 1

RECURSIVE DecVal(_)
DecVal(s) == IF s = <<>> THEN 0
             ELSE DecVal(SubSeq(s, 1, Len(s) - 1)) * 10 + DigitVal(s[Len(s)])

RECURSIVE HexNum(_)
HexNum(s) == IF s = <<>> THEN 0
             ELSE HexNum(SubSeq(s, 1, Len(s) - 1)) * 16 + HexVal(s[Len(s)])

\* IPv4Address._parse_octet
OctetOk(o) ==
    /\ o # <<>>
    /\ \A i \in 1..Len(o) : IsDigit(o[i])
    /\ Len(o) <= 3
    /\ (Len(o) > 1 => o[1] # "0")
    /\ DecVal(o) <= 255

\* IPv4Address._ip_int_from_string
ParseIPv4(s) ==
    LET octets == Split(s, <<".">>)
    IN  IF s # <<>> /\ Len(octets) = 4 /\ \A i \in 1..4 : OctetOk(octets[i])
        THEN << 4, [i \in 1..4 |-> DecVal(octets[i])] >>
        ELSE None

\* IPv6Address._parse_hextet
HextetOk(h) ==
    /\ h # <<>>
    /\ Len(h) <= 4
    /\ \A i \in 1..Len(h) : IsHexDigit(h[i])

\* IPv6Address._ip_int_from_string
ParseIPv6(s) ==
    LET parts == Split(s, <<":">>)
        n == Len(parts)
        skips == { i \in 2..(n - 1) : parts[i] = <<>> }
    IN  IF s = <<>> \/ n < 3 \/ n > 9 \/ Cardinality(skips) > 1 THEN None
        ELSE IF skips # {}
        THEN LET k == CHOOSE i \in skips : TRUE
                 hi0 == k - 1
                 lo0 == n - k
                 hi == IF parts[1] = <<>> THEN hi0 - 1 ELSE hi0
                 lo == IF parts[n] = <<>> THEN lo0 - 1 ELSE lo0
                 his == SubSeq(parts, 1, hi)
                 los == SubSeq(parts, n - lo + 1, n)
             IN  IF \/ (parts[1] = <<>> /\ hi # 0)
                    \/ (parts[n] = <<>> /\ lo # 0)
                    \/ 8 - (hi + lo) < 1
                    \/ \E i \in 1..hi : ~HextetOk(his[i])
                    \/ \E i \in 1..lo : ~HextetOk(los[i])
                 THEN None
                 ELSE << 6, [i \in 1..8 |->
                              IF i <= hi THEN HexNum(his[i])
                              ELSE IF i > 8 - lo THEN HexNum(los[i - (8 - lo)])
                              ELSE 0] >>
        ELSE IF n = 8 /\ \A i \in 1..8 : HextetOk(parts[i])
             THEN << 6, [i \in 1..8 |-> HexNum(parts[i])] >>
             ELSE None

\* ipaddress.ip_address(s): IPv4 first, then IPv6, else ValueError (None)
ip_address(s) ==
    IF ParseIPv4(s) # None THEN ParseIPv4(s) ELSE ParseIPv6(s)

(***************************************************************************)
(* _should_bypass_proxy(hostname, proxy_config)                            *)
(***************************************************************************)
Localhost == <<"l","o","c","a","l","h","o","s","t">>
Loopback4 == <<"1","2","7",".","0",".","0",".","1">>
Loopback6 == <<":",":","1">>

\* a suffix rule that forgets the pattern's leading dot
PatternMatchesBareSuffix(hostname, rawPattern) ==
    LET pattern == Strip(Lower(rawPattern))
    IN  \/ pattern = <<"*">>
        \/ EndsWith(Lower(hostname),
                    IF StartsWith(pattern, <<".">>) THEN Tail(pattern) ELSE pattern)
\* one iteration of the loop over the NO_PROXY patterns (lines 115-132)
PatternMatches(hostname, rawPattern) ==
    LET pattern == Strip(Lower(rawPattern))
        hostname_lower == Lower(hostname)
    IN  \/ pattern = <<"*">>
        \/ /\ ip_address(hostname) # None
           /\ ip_address(pattern) # None
           /\ ip_address(hostname) = ip_address(pattern)
        \/ IF StartsWith(pattern, <<".">>)
           THEN EndsWith(hostname_lower, pattern) \/ hostname_lower = Tail(pattern)
           ELSE hostname_lower = pattern

_should_bypass_proxy(hostname, no_proxy) ==
    IF hostname \in {Localhost, Loopback4, Loopback6} THEN TRUE
    ELSE IF no_proxy = <<>> THEN FALSE
    ELSE \E i \in 1..Len(no_proxy) : PatternMatches(hostname, no_proxy[i])

(***************************************************************************)
(* urllib.parse.urlparse(target).hostname, with `or ''` and the handler's  *)
(* `except Exception` (handle_client lines 327-330)                        *)
(***************************************************************************)
SchemeChars == {"a","b","c","d","e","f","g","h","i","j","k","l","m","n","o","p",
                "q","r","s","t","u","v","w","x","y","z",
                "0","1","2","3","4","5","6","7","8","9","+","-","."}

\* index (0-based) of the first of the delimiters / ? # in s, Len(s) if none
NetlocEnd(s) ==
    IF \E i \in 1..Len(s) : s[i] \in {"/", "?", "#"}
    THEN (CHOOSE i \in 1..Len(s) :
             /\ s[i] \in {"/", "?", "#"}
             /\ \A j \in 1..(i - 1) : s[j] \notin {"/", "?", "#"}) - 1
    ELSE Len(s)

\* urlsplit: the netloc of a URL, or None when urlsplit raises ValueError
UrlNetloc(url) ==
    LET c == Find(url, <<":">>)
        hasScheme == /\ c > 0
                     /\ LowerChar(url[1]) \in SchemeChars
                     /\ ~IsDigit(url[1])
                     /\ \A i \in 1..c : LowerChar(url[i]) \in SchemeChars
        rest == IF hasScheme THEN From(url, c + 1) ELSE url
        netloc == IF StartsWith(rest, <<"/", "/">>)
                  THEN Upto(From(rest, 2), NetlocEnd(From(rest, 2)))
                  ELSE <<>>
    IN  IF Contains(netloc, <<"[">>) # Contains(netloc, <<"]">>) THEN None
        ELSE netloc

\* SplitResult.hostname (_hostinfo): userinfo dropped, brackets and port
\* removed, lower-cased; '' when there is none or urlparse raised
UrlHostname(target) ==
    LET netloc == UrlNetloc(target)
        at == IF netloc = None THEN -1 ELSE RFind(netloc, <<"@">>)
        hostinfo == IF netloc = None THEN <<>>
                    ELSE IF at = -1 THEN netloc ELSE From(netloc, at + 1)
        br == Find(hostinfo, <<"[">>)
        bracketed == Split1(From(hostinfo, br + 1), <<"]">>)[1]
        host == IF br # -1 THEN bracketed ELSE Split1(hostinfo, <<":">>)[1]
    IN  Lower(host)

(***************************************************************************)
(* handle_client's parsing of the bytes read (lines 312-330)               *)
(***************************************************************************)
\* request.decode('utf-8', errors='ignore').split('\r\n')
RequestLines(request) == Split(request, CRLF)

\* lines[0].split(' ', 1)[0].upper()
MethodOf(line0) == Upper(Split1(line0, <<" ">>)[1])

\* lines[0].split(' ')[1] if len(lines[0].split(' ')) > 1 else ''
TargetOf(line0) ==
    LET toks == Split(line0, <<" ">>)
    IN  IF Len(toks) > 1 THEN toks[2] ELSE <<>>

CONNECT == <<"C","O","N","N","E","C","T">>

\* the hostname handed to _should_bypass_proxy (lines 324-330)
HostnameOf(line0) ==
    IF MethodOf(line0) = CONNECT
    THEN Split(TargetOf(line0), <<":">>)[1]
    ELSE UrlHostname(TargetOf(line0))

(***************************************************************************)
(* _build_auth_header(proxy_config)                                        *)
(***************************************************************************)
B64Alphabet == << "A","B","C","D","E","F","G","H","I","J","K","L","M","N","O","P","Q","R","S","T","U","V","W","X","Y","Z","a","b","c","d","e","f","g","h","i","j","k","l","m","n","o","p","q","r","s","t","u","v","w","x","y","z","0","1","2","3","4","5","6","7","8","9","+","/" >>

\* ASCII code of a character of the modelled credential alphabet
CharCode(c) ==
    IF \E i \in 1..26 : LowerChars[i] = c THEN 96 + (CHOOSE i \in 1..26 : LowerChars[i] = c)
    ELSE IF \E i \in 1..26 : UpperChars[i] = c THEN 64 + (CHOOSE i \in 1..26 : UpperChars[i] = c)
    ELSE IF IsDigit(c) THEN 48 + DigitVal(c)
    ELSE IF c = ":" THEN 58
    ELSE 63

\* base64.b64encode over a list of byte values
RECURSIVE B64Bytes(_)
B64Bytes(bs) ==
    IF bs = <<>> THEN <<>>
    ELSE LET n == IF Len(bs) >= 3 THEN 3 ELSE Len(bs)
             b1 == bs[1]
             b2 == IF n >= 2 THEN bs[2] ELSE 0
             b3 == IF n >= 3 THEN bs[3] ELSE 0
             v == b1 * 65536 + b2 * 256 + b3
             c1 == B64Alphabet[(v \div 262144) + 1]
             c2 == B64Alphabet[((v \div 4096) % 64) + 1]
             c3 == IF n >= 2 THEN B64Alphabet[((v \div 64) % 64) + 1] ELSE "="
             c4 == IF n >= 3 THEN B64Alphabet[(v % 64) + 1] ELSE "="
         IN  << c1, c2, c3, c4 >> \o B64Bytes(SubSeq(bs, n + 1, Len(bs)))

b64encode(s) == B64Bytes([i \in 1..Len(s) |-> CharCode(s[i])])

\* Python truthiness of an optional text: None and '' are false
Truthy(s) == s # None /\ s # <<>>

_build_auth_header(username, password) ==
    IF Truthy(username) /\ Truthy(password)
    THEN <<"B","a","s","i","c"," ">> \o b64encode(username \o <<":">> \o password)
    ELSE None

(***************************************************************************)
(* _inject_auth_header(request_lines, auth_header)                         *)
(***************************************************************************)
ProxyAuthPrefix == <<"p","r","o","x","y","-","a","u","t","h","o","r","i","z","a","t","i","o","n",":">>
ProxyAuthName == <<"P","r","o","x","y","-","A","u","t","h","o","r","i","z","a","t","i","o","n",":"," ">>

\* the test of line 154: the line is kept
KeepLineCaseSensitive(line) == line # <<>> /\ ~StartsWith(line, ProxyAuthPrefix)
KeepLine(line) == line # <<>> /\ ~StartsWith(Lower(line), ProxyAuthPrefix)

\* the loop of lines 153-155 over request_lines[1:]
RECURSIVE KeptLines(_)
KeptLines(lines) ==
    IF lines = <<>> THEN <<>>
    ELSE (IF KeepLine(Head(lines)) THEN Head(lines) \o CRLF ELSE <<>>)
         \o KeptLines(Tail(lines))

_inject_auth_header(request_lines, auth_header) ==
    LET result == request_lines[1] \o CRLF \o KeptLines(Tail(request_lines))
    IN  (IF Truthy(auth_header)
         THEN RStripCRLF(result) \o CRLF \o ProxyAuthName \o auth_header \o CRLF
         ELSE result)
        \o CRLF

(***************************************************************************)
(* _send_error(client_socket, status_code, reason): the response text      *)
(***************************************************************************)
\* str(n) for a natural number
RECURSIVE IntToStr(_)
IntToStr(n) ==
    IF n < 10 THEN << Digits[n + 1] >>
    ELSE IntToStr(n \div 10) \o << Digits[(n % 10) + 1] >>

ReasonBadRequest == <<"B","a","d"," ","R","e","q","u","e","s","t">>
ReasonBadGateway == <<"B","a","d"," ","G","a","t","e","w","a","y">>
ReasonGatewayTimeout == <<"G","a","t","e","w","a","y"," ","T","i","m","e","o","u","t">>
ReasonInternal == <<"I","n","t","e","r","n","a","l"," ","P","r","o","x","y"," ","E","r","r","o","r">>
ReasonDirect == <<"D","i","r","e","c","t"," ","c","o","n","n","e","c","t","i","o","n"," ","n","o","t"," ","s","u","p","p","o","r","t","e","d"," ","t","h","r","o","u","g","h"," ","p","r","o","x","y"," ","w","r","a","p","p","e","r">>

ErrorResponse(status_code, reason) ==
    LET body == IntToStr(status_code) \o <<" ">> \o reason \o CRLF
    IN  <<"H","T","T","P","/","1",".","1"," ">> \o IntToStr(status_code) \o <<" ">> \o reason \o CRLF
        \o <<"C","o","n","t","e","n","t","-","T","y","p","e",":"," ","t","e","x","t","/","p","l","a","i","n">> \o CRLF
        \o <<"C","o","n","t","e","n","t","-","L","e","n","g","t","h",":"," ">> \o IntToStr(Len(body)) \o CRLF
        \o <<"C","o","n","n","e","c","t","i","o","n",":"," ","c","l","o","s","e">> \o CRLF
        \o CRLF
        \o body

(***************************************************************************)
(* Bounds of the model                                                     *)
(***************************************************************************)
MaxStarts == 2      \* listening sockets bound over the whole run
MaxConns == 1       \* connections accepted while the listener is started and stopped
MaxPorts == 2       \* ephemeral ports the OS hands out

Ports == 1..MaxPorts
Callers == {"main"}

(***************************************************************************)
(* State                                                                   *)
(***************************************************************************)
VARIABLES
    _wrapper_server,  \* module global: id of the listening socket, NoId for None
    _wrapper_port,    \* module global: bound port, NoId for None
    _wrapper_thread,  \* module global: id of the accept thread, NoId for None
    socks,            \* every socket object created: [kind, state, port]
    loops,            \* accept_connections threads: [pc, sock, cfg, own, accepted, stopped]
    conns,            \* accepted connections with their handler and relay threads
    callers,          \* threads of the embedding program calling start / stop
    ret,              \* the last start / stop call that returned, and its result
    fn                \* input and result of the pure function under check

vars == << _wrapper_server, _wrapper_port, _wrapper_thread, socks, loops,
           conns, callers, ret, fn >>

\* socket.socket(...): a new open socket object appended to the table
NewSocket(ss, kind, port) == Append(ss, [kind |-> kind, state |-> "open", port |-> port])

\* sock.close(): closing is idempotent and touches this socket only
SockCloseAll(ss, id) ==
    [i \in DOMAIN ss |-> [ss[i] EXCEPT !.state = "closed"]]
SockClose(ss, id) ==
    IF id \in DOMAIN ss THEN [ss EXCEPT ![id].state = "closed"] ELSE ss

IsOpen(ss, id) == id \in DOMAIN ss /\ ss[id].state = "open"

\* ports bound by a listening socket that is still open
BoundPorts == { socks[i].port : i \in { j \in DOMAIN socks :
                    socks[j].kind = "listen" /\ socks[j].state = "open" } }

\* the value start_proxy_wrapper returns: {'server': f'http://127.0.0.1:{port}'}
Endpoint(port) == <<"h","t","t","p",":","/","/","1","2","7",".","0",".","0",".","1",":">> \o
                  (IF port = NoId THEN <<"N","o","n","e">> ELSE IntToStr(port))

(***************************************************************************)
(* Proxy configurations handed to start_proxy_wrapper                      *)
(***************************************************************************)
CfgAuth == [username |-> <<"u">>, password |-> <<"p">>,
            no_proxy |-> << <<".","e",".","c">> >>]
CfgAnon == [username |-> None, password |-> None, no_proxy |-> <<>>]
Configs == {CfgAuth, CfgAnon}

\* the record of a returning call: its result, the listening sockets and the
\* number of accept threads that exist, and the same for the call before it
Returned(op, url) ==
    [op |-> op, url |-> url,
     lsn |-> { i \in DOMAIN socks : socks[i].kind = "listen" },
     thr |-> Len(loops), srv |-> _wrapper_server,
     pop |-> ret.op, purl |-> ret.url, plsn |-> ret.lsn, pthr |-> ret.thr,
     psrv |-> ret.srv]

NoReturn == [op |-> "none", url |-> <<>>, lsn |-> {}, thr |-> 0, srv |-> NoId,
             pop |-> "none", purl |-> <<>>, plsn |-> {}, pthr |-> 0, psrv |-> NoId]

NoCall == [raw |-> <<>>, username |-> None, password |-> None, out |-> <<>>, done |-> FALSE]

Init ==
    /\ _wrapper_server = NoId
    /\ _wrapper_port = NoId
    /\ _wrapper_thread = NoId
    /\ socks = <<>>
    /\ loops = <<>>
    /\ conns = <<>>
    /\ callers = [k \in Callers |-> [pc |-> "idle", op |-> "none", cfg |-> CfgAnon]]
    /\ ret = NoReturn
    /\ fn = NoCall

(***************************************************************************)
(* start_proxy_wrapper(proxy_config)                                       *)
(***************************************************************************)
\* line 379: `if _wrapper_server:`
AlreadyRunningNever(server) == FALSE
AlreadyRunning(server) == server # NoId

\* the listening sockets created so far
Listeners == { i \in DOMAIN socks : socks[i].kind = "listen" }

\* lines 379-382: entry; returns the existing endpoint when already running
StartCall(k, cfg) ==
    /\ callers[k].pc = "idle"
    /\ IF AlreadyRunning(_wrapper_server)
       THEN /\ ret' = Returned("start", Endpoint(_wrapper_port))
            /\ callers' = [callers EXCEPT ![k] = [pc |-> "idle", op |-> "start", cfg |-> cfg]]
       ELSE /\ Cardinality(Listeners) < MaxStarts
            /\ ret' = ret
            /\ callers' = [callers EXCEPT ![k] = [pc |-> "bind", op |-> "start", cfg |-> cfg]]
    /\ UNCHANGED << _wrapper_server, _wrapper_port, _wrapper_thread, socks, loops, conns, fn >>

\* lines 384-388: create, bind to an OS-assigned free port, listen
StartBind(k) ==
    /\ callers[k].pc = "bind"
    /\ \E p \in Ports \ BoundPorts :
          /\ socks' = NewSocket(socks, "listen", p)
          /\ _wrapper_server' = Len(socks) + 1
          /\ _wrapper_port' = p
    /\ callers' = [callers EXCEPT ![k].pc = "thread"]
    /\ UNCHANGED << _wrapper_thread, loops, conns, ret, fn >>

\* lines 405-407: create and start the accept thread
StartThread(k) ==
    /\ callers[k].pc = "thread"
    /\ loops' = Append(loops, [pc |-> "top", sock |-> NoId, cfg |-> callers[k].cfg,
                               accepted |-> 0, stopped |-> FALSE])
    /\ _wrapper_thread' = Len(loops) + 1
    /\ callers' = [callers EXCEPT ![k].pc = "return"]
    /\ UNCHANGED << _wrapper_server, _wrapper_port, socks, conns, ret, fn >>

\* lines 410-412: sleep, then return the endpoint built from the global port
StartReturn(k) ==
    /\ callers[k].pc = "return"
    /\ ret' = Returned("start", Endpoint(_wrapper_port))
    /\ callers' = [callers EXCEPT ![k].pc = "idle"]
    /\ UNCHANGED << _wrapper_server, _wrapper_port, _wrapper_thread, socks, loops, conns, fn >>

(***************************************************************************)
(* stop_proxy_wrapper()                                                    *)
(***************************************************************************)
\* lines 616-620: `if _wrapper_server:` and the close of the listening socket
StopCall(k) ==
    /\ callers[k].pc = "idle"
    /\ IF _wrapper_server # NoId
       THEN /\ socks' = SockClose(socks, _wrapper_server)
            /\ callers' = [callers EXCEPT ![k].pc = "clear", ![k].op = "stop"]
            /\ ret' = ret
       ELSE /\ socks' = socks
            /\ callers' = [callers EXCEPT ![k].op = "stop"]
            /\ ret' = Returned("stop", <<>>)
    /\ UNCHANGED << _wrapper_server, _wrapper_port, _wrapper_thread, loops, conns, fn >>

\* lines 621-623: the three globals are reset; stop returns.  Every accept
\* thread started so far is marked as one a completed stop was meant to end.
StopClear(k) ==
    /\ callers[k].pc = "clear"
    /\ _wrapper_server' = NoId
    /\ _wrapper_thread' = NoId
    /\ _wrapper_port' = NoId
    /\ loops' = [t \in DOMAIN loops |-> [loops[t] EXCEPT !.stopped = TRUE]]
    /\ callers' = [callers EXCEPT ![k].pc = "idle"]
    /\ ret' = Returned("stop", <<>>)
    /\ UNCHANGED << socks, conns, fn >>

(***************************************************************************)
(* accept_connections (the closure of start_proxy_wrapper, lines 396-403)  *)
(***************************************************************************)
IdleRelay == [pc |-> "idle", data |-> <<>>]

\* the connection record created when accept() returns a client socket
NewConn(t, plan) ==
    [ loop |-> t, lsn |-> loops[t].sock, cfg |-> loops[t].cfg,
      afterStop |-> loops[t].stopped,
      cs |-> Len(socks) + 1, ps |-> NoId,
      cplan |-> plan, cpeer |-> "open", cread |-> <<>>, cout |-> <<>>,
      pplan |-> <<>>, ppeer |-> "none", pread |-> <<>>, pout |-> <<>>,
      pc |-> "read", kind |-> "none",
      request |-> <<>>, response |-> <<>>, modified |-> <<>>,
      errs |-> <<>>, exc |-> "none", nconnect |-> 0,
      relay |-> << IdleRelay, IdleRelay >> ]

\* line 399, evaluation of `_wrapper_server.accept`: the module global is read
\* on every iteration; None has no accept attribute and the AttributeError is
\* not an OSError, so it ends the thread uncaught
LoopTop(t) ==
    /\ loops[t].pc = "top"
    /\ loops' = [loops EXCEPT ![t] =
                    IF _wrapper_server = NoId
                    THEN [@ EXCEPT !.pc = "died"]
                    ELSE [@ EXCEPT !.pc = "accepting", !.sock = _wrapper_server]]
    /\ UNCHANGED << _wrapper_server, _wrapper_port, _wrapper_thread, socks, conns,
                    callers, ret, fn >>

\* an accept loop that runs the handler itself: it accepts again only when
\* every earlier connection is finished
LoopAcceptSerial(t, plans) ==
    /\ loops[t].pc = "accepting"
    /\ IsOpen(socks, loops[t].sock)
    /\ \A c \in DOMAIN conns : conns[c].pc = "done"
    /\ \E plan \in plans :
          /\ conns' = Append(conns, NewConn(t, plan))
          /\ socks' = NewSocket(socks, "client", 0)
    /\ loops' = [loops EXCEPT ![t].pc = "top", ![t].accepted = @ + 1]
    /\ UNCHANGED << _wrapper_server, _wrapper_port, _wrapper_thread, callers, ret, fn >>

\* lines 399-401: accept() returns a client that sent `plan`; the handler
\* thread is started and the loop goes round
LoopAccept(t, plans) ==
    /\ loops[t].pc = "accepting"
    /\ IsOpen(socks, loops[t].sock)
    /\ \E plan \in plans :
          /\ conns' = Append(conns, NewConn(t, plan))
          /\ socks' = NewSocket(socks, "client", 0)
    /\ loops' = [loops EXCEPT ![t].pc = "top", ![t].accepted = @ + 1]
    /\ UNCHANGED << _wrapper_server, _wrapper_port, _wrapper_thread, callers, ret, fn >>

\* lines 402-403: accept() on the closed listening socket raises OSError
LoopAcceptError(t) ==
    /\ loops[t].pc = "accepting"
    /\ ~IsOpen(socks, loops[t].sock)
    /\ loops' = [loops EXCEPT ![t].pc = "exited"]
    /\ UNCHANGED << _wrapper_server, _wrapper_port, _wrapper_thread, socks, conns,
                    callers, ret, fn >>

(***************************************************************************)
(* Socket I/O of one connection.  A step works on st = [r, ss]: the        *)
(* connection record and the socket table.                                 *)
(***************************************************************************)
\* bytes written to a stream arrive after those written before
DeliverDropFirst(out, data) == out \o Tail(data)
Deliver(out, data) == out \o data

\* client_socket.sendall(data): the outcomes, each with the flag `ok`
\* (FALSE: OSError).  A peer that resets during the write has received a
\* prefix of the data.
SendClient(st, data) ==
    IF ~IsOpen(st.ss, st.r.cs) \/ st.r.cpeer = "reset"
    THEN { [st |-> st, ok |-> FALSE] }
    ELSE { [st |-> [st EXCEPT !.r.cout = Deliver(@, data)], ok |-> TRUE] }
         \cup
         (IF Len(data) >= 2
          THEN { [st |-> [st EXCEPT !.r.cout = Deliver(@, << data[1] >>),
                                    !.r.cpeer = "reset", !.r.cplan = <<>>],
                  ok |-> FALSE] }
          ELSE {})

\* proxy_socket.sendall(data): "ok", "error" (OSError) or "timeout"
\* (socket.timeout; the socket carries the 30 s timeout of line 203)
SendUp(st, data) ==
    IF ~IsOpen(st.ss, st.r.ps) \/ st.r.ppeer = "reset"
    THEN { [st |-> st, res |-> "error"] }
    ELSE { [st |-> [st EXCEPT !.r.pout = Deliver(@, data)], res |-> "ok"],
           [st |-> st, res |-> "timeout"] }

\* _send_error: the response is written best-effort, OSError is swallowed
_send_error(st, status_code, reason) ==
    { o.st : o \in SendClient([st EXCEPT !.r.errs = Append(@, status_code)],
                              ErrorResponse(status_code, reason)) }

CloseClient(st) == [st EXCEPT !.ss = SockClose(@, st.r.cs)]
CloseProxy(st) == [st EXCEPT !.ss = SockClose(@, st.r.ps)]
Done(st) == [st EXCEPT !.r.pc = "done"]

\* one step of connection c with the given set of outcomes
ConnStep(c, outcomes) ==
    /\ \E st \in outcomes :
          /\ conns' = [conns EXCEPT ![c] = st.r]
          /\ socks' = st.ss
    /\ UNCHANGED << _wrapper_server, _wrapper_port, _wrapper_thread, loops,
                    callers, ret, fn >>

St(c) == [r |-> conns[c], ss |-> socks]

(***************************************************************************)
(* handle_client(client_socket, proxy_config)                              *)
(***************************************************************************)
\* a catch-all that answers 500 and leaves the client socket open
UnhandledNoClose(st) ==
    { Done(s) : s \in _send_error(st, 500, ReasonInternal) }
\* lines 345-354: `except Exception` of handle_client
Unhandled(st) ==
    { Done(CloseClient(s)) : s \in _send_error(st, 500, ReasonInternal) }

\* lines 301-306: one iteration of the header read loop
ReadRequest(c) ==
    /\ conns[c].pc = "read"
    /\ LET st == St(c)
           r == conns[c]
       IN  \/ /\ r.cplan # <<>>
              /\ LET req == r.request \o Head(r.cplan)
                 IN  ConnStep(c, { [st EXCEPT
                        !.r.request = req,
                        !.r.cread = @ \o Head(r.cplan),
                        !.r.cplan = Tail(@),
                        !.r.pc = IF Contains(req, CRLFCRLF) THEN "dispatch" ELSE "read"] })
           \/ /\ r.cplan = <<>>
              /\ r.cpeer = "eof"
              /\ ConnStep(c, { [st EXCEPT !.r.pc = "dispatch"] })
           \/ /\ r.cpeer = "reset"
              /\ ConnStep(c, Unhandled([st EXCEPT !.r.exc = "client_error"]))

\* lines 308-343: empty request, 400, bypass, or dispatch on the method
Dispatch(c) ==
    /\ conns[c].pc = "dispatch"
    /\ LET st == St(c)
           r == conns[c]
           lines == RequestLines(r.request)
       IN  IF r.request = <<>>
           THEN ConnStep(c, { Done(CloseClient(st)) })
           ELSE IF lines[1] = <<>>
           THEN ConnStep(c, { Done(CloseClient(s)) :
                                s \in _send_error(st, 400, ReasonBadRequest) })
           ELSE IF _should_bypass_proxy(HostnameOf(lines[1]), r.cfg.no_proxy)
           THEN ConnStep(c, { Done(CloseClient(s)) :
                                s \in _send_error([st EXCEPT !.r.kind = "bypass"],
                                                  502, ReasonDirect) })
           ELSE IF MethodOf(lines[1]) = CONNECT
           THEN ConnStep(c, { [st EXCEPT !.r.kind = "connect", !.r.pc = "connect"] })
           ELSE ConnStep(c, { [st EXCEPT !.r.kind = "http", !.r.pc = "connect"] })

(***************************************************************************)
(* _handle_connect and _handle_http                                        *)
(***************************************************************************)
\* the except clauses: socket.timeout -> 504, any other OSError -> 502
AlwaysBadGateway(exc) == 502
AlwaysGatewayTimeout(exc) == 504
ErrorStatus(exc) == IF exc = "up_timeout" THEN 504 ELSE 502
ErrorReason(exc) == IF exc = "up_timeout" THEN ReasonGatewayTimeout ELSE ReasonBadGateway

\* error handling that closes the upstream socket only, whatever the handler
FailUpstreamOnly(st, exc) ==
    { Done(CloseProxy(s)) :
        s \in _send_error([st EXCEPT !.r.exc = exc], ErrorStatus(exc), ErrorReason(exc)) }
\* _handle_connect lines 241-256: error response, then the upstream socket is
\* closed if it exists; the client socket is left as it is.
\* _handle_http lines 282-294: error response, then `finally` closes both.
Fail(st, exc) ==
    LET st1 == [st EXCEPT !.r.exc = exc]
    IN  { Done(IF st.r.kind = "connect" THEN CloseProxy(s) ELSE CloseProxy(CloseClient(s))) :
            s \in _send_error(st1, ErrorStatus(exc), ErrorReason(exc)) }

\* lines 202-204 / 263-265: socket(), settimeout(30), connect(); on success
\* the upstream proxy will send the chunks of `script`
ConnectUpstream(c, scripts) ==
    /\ conns[c].pc = "connect"
    /\ LET st == [r |-> [conns[c] EXCEPT !.ps = Len(socks) + 1, !.nconnect = @ + 1],
                  ss |-> NewSocket(socks, "upstream", 0)]
       IN  ConnStep(c,
              { [st EXCEPT !.r.pc = "send", !.r.ppeer = "open", !.r.pplan = script] :
                    script \in scripts }
              \cup Fail(st, "up_timeout")
              \cup Fail(st, "up_error"))

\* lines 206-207 / 267-268: the rewritten request is sent upstream
SendRequest(c) ==
    /\ conns[c].pc = "send"
    /\ LET r == conns[c]
           modified == _inject_auth_header(RequestLines(r.request),
                           _build_auth_header(r.cfg.username, r.cfg.password))
           header_end == Find(r.request, CRLFCRLF)
           hasBody == header_end # -1 /\ header_end + 4 < Len(r.request)
           next == IF r.kind = "connect" THEN "response"
                   ELSE IF hasBody THEN "body" ELSE "stream"
       IN  ConnStep(c, UNION {
              CASE o.res = "ok" -> { [o.st EXCEPT !.r.modified = modified, !.r.pc = next] }
                [] o.res = "timeout" -> Fail(o.st, "up_timeout")
                [] OTHER -> Fail(o.st, "up_error")
              : o \in SendUp(St(c), modified) })

\* _handle_http lines 271-273: body bytes read past the header terminator
SendBody(c) ==
    /\ conns[c].pc = "body"
    /\ LET r == conns[c]
           header_end == Find(r.request, CRLFCRLF)
       IN  ConnStep(c, UNION {
              CASE o.res = "ok" -> { [o.st EXCEPT !.r.pc = "stream"] }
                [] o.res = "timeout" -> Fail(o.st, "up_timeout")
                [] OTHER -> Fail(o.st, "up_error")
              : o \in SendUp(St(c), From(r.request, header_end + 4)) })

\* proxy_socket.recv(n) in the handler thread: the outcomes as
\* [st, res, chunk] with res "data", "eof", "error" or "timeout"
RecvUp(st) ==
    IF st.r.pplan # <<>>
    THEN { [st |-> [st EXCEPT !.r.pplan = Tail(@), !.r.pread = @ \o Head(st.r.pplan)],
            res |-> "data", chunk |-> Head(st.r.pplan)] }
    ELSE IF st.r.ppeer = "eof" THEN { [st |-> st, res |-> "eof", chunk |-> <<>>] }
    ELSE IF st.r.ppeer = "reset" THEN { [st |-> st, res |-> "error", chunk |-> <<>>] }
    ELSE { [st |-> st, res |-> "timeout", chunk |-> <<>>] }

\* _handle_connect lines 210-215: one iteration of the response read loop
ReadResponse(c) ==
    /\ conns[c].pc = "response"
    /\ ConnStep(c, UNION {
          CASE o.res = "data" ->
                 LET resp == o.st.r.response \o o.chunk
                 IN  { [o.st EXCEPT !.r.response = resp,
                          !.r.pc = IF Contains(resp, CRLFCRLF) THEN "forward" ELSE "response"] }
            [] o.res = "eof" -> { [o.st EXCEPT !.r.pc = "forward"] }
            [] o.res = "timeout" -> Fail(o.st, "up_timeout")
            [] OTHER -> Fail(o.st, "up_error")
          : o \in RecvUp(St(c)) })

\* line 219: `b"200" in response[:50]`
Established(response) == Contains(Upto(response, 50), <<"2","0","0">>)

\* lines 217-239: the response is forwarded; the tunnel starts or both
\* sockets are closed
ForwardResponse(c) ==
    /\ conns[c].pc = "forward"
    /\ LET r == conns[c]
       IN  ConnStep(c, UNION {
              IF ~o.ok THEN Fail(o.st, "client_error")
              ELSE IF Established(r.response)
              THEN { [o.st EXCEPT !.r.pc = "join",
                         !.r.relay = << [pc |-> "recv", data |-> <<>>],
                                        [pc |-> "recv", data |-> <<>>] >>] }
              ELSE { Done(CloseProxy(CloseClient(o.st))) }
              : o \in SendClient(St(c), r.response) })

\* lines 233-234: t1.join(); t2.join()
Join(c) ==
    /\ conns[c].pc = "join"
    /\ conns[c].relay[1].pc = "done"
    /\ conns[c].relay[2].pc = "done"
    /\ ConnStep(c, { Done(St(c)) })

\* _handle_http lines 276-280 and the `finally` of 288-294
StreamResponse(c) ==
    /\ conns[c].pc = "stream"
    /\ ConnStep(c, UNION {
          CASE o.res = "data" ->
                 UNION { IF w.ok THEN { w.st } ELSE Fail(w.st, "client_error")
                         : w \in SendClient(o.st, o.chunk) }
            [] o.res = "eof" -> { Done(CloseProxy(CloseClient(o.st))) }
            [] o.res = "timeout" -> Fail(o.st, "up_timeout")
            [] OTHER -> Fail(o.st, "up_error")
          : o \in RecvUp(St(c)) })

(***************************************************************************)
(* _forward_data(source, destination): relay thread d of connection c;     *)
(* d = 1 is client->proxy, d = 2 is proxy->client                          *)
(***************************************************************************)
SourceSock(r, d) == IF d = 1 THEN r.cs ELSE r.ps
SourcePlan(r, d) == IF d = 1 THEN r.cplan ELSE r.pplan
SourcePeer(r, d) == IF d = 1 THEN r.cpeer ELSE r.ppeer

\* a `finally` that closes nothing
RelayFinallyNoClose(st, d) ==
    [st EXCEPT !.r.relay[d] = [pc |-> "done", data |-> <<>>]]
\* lines 190-195: `finally` closes source and destination
RelayFinally(st, d) ==
    [CloseProxy(CloseClient(st)) EXCEPT !.r.relay[d] = [pc |-> "done", data |-> <<>>]]

\* line 184, entering source.recv: a socket object already closed raises
RelayRecvCall(c, d) ==
    /\ conns[c].relay[d].pc = "recv"
    /\ ConnStep(c, { IF IsOpen(socks, SourceSock(conns[c], d))
                     THEN [St(c) EXCEPT !.r.relay[d].pc = "blocked"]
                     ELSE RelayFinally(St(c), d) })

\* lines 184-186, source.recv returns: a chunk, end-of-stream, or OSError
\* (peer reset; the 30 s timeout still set on the upstream socket; the
\* socket closed under the blocked call by the other relay thread)
RelayRecvReturn(c, d) ==
    /\ conns[c].relay[d].pc = "blocked"
    /\ LET st == St(c)
           r == conns[c]
       IN  \/ /\ SourcePlan(r, d) # <<>>
              /\ ConnStep(c, { IF d = 1
                               THEN [st EXCEPT !.r.cplan = Tail(@),
                                               !.r.cread = @ \o Head(r.cplan),
                                               !.r.relay[d] = [pc |-> "send", data |-> Head(r.cplan)]]
                               ELSE [st EXCEPT !.r.pplan = Tail(@),
                                               !.r.pread = @ \o Head(r.pplan),
                                               !.r.relay[d] = [pc |-> "send", data |-> Head(r.pplan)]] })
           \/ /\ SourcePlan(r, d) = <<>>
              /\ SourcePeer(r, d) = "eof"
              /\ ConnStep(c, { RelayFinally(st, d) })
           \/ /\ SourcePeer(r, d) = "reset"
              /\ ConnStep(c, { RelayFinally(st, d) })
           \/ /\ d = 2
              /\ SourcePlan(r, d) = <<>>
              /\ SourcePeer(r, d) = "open"
              /\ ConnStep(c, { RelayFinally(st, d) })
           \/ /\ ~IsOpen(socks, SourceSock(r, d))
              /\ ConnStep(c, { RelayFinally(st, d) })

\* line 187: destination.sendall(data); OSError (socket.timeout on the
\* upstream socket included) ends the thread through `finally`
RelaySend(c, d) ==
    /\ conns[c].relay[d].pc = "send"
    /\ LET st == St(c)
           data == conns[c].relay[d].data
       IN  IF d = 1
           THEN ConnStep(c, { IF o.res = "ok"
                              THEN [o.st EXCEPT !.r.relay[d] = [pc |-> "recv", data |-> <<>>]]
                              ELSE RelayFinally(o.st, d)
                              : o \in SendUp(st, data) })
           ELSE ConnStep(c, { IF o.ok
                              THEN [o.st EXCEPT !.r.relay[d] = [pc |-> "recv", data |-> <<>>]]
                              ELSE RelayFinally(o.st, d)
                              : o \in SendClient(st, data) })

(***************************************************************************)
(* The peers: the client (browser) and the upstream proxy                  *)
(***************************************************************************)
Live(c) == conns[c].pc # "done"

\* the client has sent everything and shuts its sending side down
ClientEof(c) ==
    /\ Live(c)
    /\ conns[c].cpeer = "open"
    /\ conns[c].cplan = <<>>
    /\ ConnStep(c, { [St(c) EXCEPT !.r.cpeer = "eof"] })

\* the client connection is reset; what it had not yet sent is lost
ClientReset(c) ==
    /\ Live(c)
    /\ conns[c].cpeer \in {"open", "eof"}
    /\ ConnStep(c, { [St(c) EXCEPT !.r.cpeer = "reset", !.r.cplan = <<>>] })

UpstreamEof(c) ==
    /\ Live(c)
    /\ conns[c].ppeer = "open"
    /\ conns[c].pplan = <<>>
    /\ ConnStep(c, { [St(c) EXCEPT !.r.ppeer = "eof"] })

UpstreamReset(c) ==
    /\ Live(c)
    /\ conns[c].ppeer \in {"open", "eof"}
    /\ ConnStep(c, { [St(c) EXCEPT !.r.ppeer = "reset", !.r.pplan = <<>>] })

(***************************************************************************)
(* Inputs: what a client sends (a list of chunks, one per recv) and what   *)
(* the upstream proxy sends once connected                                 *)
(***************************************************************************)
ReqConnect == <<"C","O","N","N","E","C","T"," ","h",":","4"," ","V","\r","\n","\r","\n">>
ReqGet == <<"G","E","T"," ","h","t","t","p",":","/","/","h","/"," ","V","\r","\n","P","r","o","x","y","-","A","u","t","h","o","r","i","z","a","t","i","o","n",":"," ","F","o","o","\r","\n","\r","\n">>
ReqPost == <<"P","O","S","T"," ","h","t","t","p",":","/","/","h","/"," ","V","\r","\n","H","o","s","t",":"," ","h","\r","\n","\r","\n">>

PlanTunnel == << ReqConnect, <<"P","Q">>, <<"R">> >>
PlanConnectOver == << ReqConnect \o <<"P">>, <<"Q">> >>
PlanConnectSplit == << <<"c","o","n","n","e","c","t"," ","h",":","4">>, <<" ","V","\r","\n","\r","\n">> >>
PlanGet == << ReqGet >>
PlanPost == << ReqPost \o <<"B","C">> >>
PlanLocalhost == << <<"C","O","N","N","E","C","T"," ","l","o","c","a","l","h","o","s","t",":","4"," ","V","\r","\n","\r","\n">> >>
PlanLoopback6 == << <<"C","O","N","N","E","C","T"," ",":",":","1",":","4"," ","V","\r","\n","\r","\n">> >>
PlanGet127 == << <<"G","E","T"," ","h","t","t","p",":","/","/","1","2","7",".","0",".","0",".","1","/"," ","V","\r","\n","\r","\n">> >>
PlanGet6 == << <<"G","E","T"," ","h","t","t","p",":","/","/","[",":",":","1","]",":","8","/"," ","V","\r","\n","\r","\n">> >>
PlanSuffix == << <<"G","E","T"," ","h","t","t","p",":","/","/","S",".","e",".","c","/"," ","V","\r","\n","\r","\n">> >>
PlanNothing == << >>
PlanBlank == << CRLFCRLF >>
PlanPartial == << <<"G","E","T"," ","h","t","t","p",":","/","/","h","/"," ","V","\r","\n","H","o">> >>
PlanNoTarget == << <<"G","E","T","\r","\n","\r","\n">> >>

PlansListener == { << ReqConnect >> }
PlansPair == { << ReqConnect >> }
PlansAll == { PlanTunnel, PlanConnectOver, PlanConnectSplit, PlanGet, PlanPost,
              PlanLocalhost, PlanLoopback6, PlanGet127, PlanGet6, PlanSuffix,
              PlanNothing, PlanBlank, PlanPartial, PlanNoTarget }

Resp200 == <<"V"," ","2","0","0"," ","O","K","\r","\n","\r","\n">>
Resp407 == <<"V"," ","4","0","7"," ","A","\r","\n","\r","\n">>

ScriptOk == << Resp200, <<"Y","Z">> >>
ScriptOkOver == << Resp200 \o <<"Y">>, <<"Z">> >>
ScriptOkSplit == << <<"V"," ","2">>, <<"0","0"," ","O","K","\r","\n","\r","\n">> >>
Script407 == << Resp407 >>
ScriptSilent == << >>

ScriptsListener == { << Resp200, <<"Y">> >> }
ScriptsPair == { << Resp200, <<"Y">> >> }

\* the two tunnels of a pair of simultaneous connections
TunnelPair == {1, 2}
ScriptsAll == { ScriptOk, ScriptOkOver, ScriptOkSplit, Script407, ScriptSilent }

(***************************************************************************)
(* Specifications                                                          *)
(***************************************************************************)
Start(configs) ==
    \/ \E k \in Callers, cfg \in configs : StartCall(k, cfg)
    \/ \E k \in Callers : StartBind(k)
    \/ \E k \in Callers : StartThread(k)
    \/ \E k \in Callers : StartReturn(k)

Stop ==
    \/ \E k \in Callers : StopCall(k)
    \/ \E k \in Callers : StopClear(k)

\* `room`: the environment still has a client that connects
AcceptLoop(plans, room) ==
    \/ \E t \in DOMAIN loops : LoopTop(t)
    \/ \E t \in DOMAIN loops : room /\ LoopAccept(t, plans)
    \/ \E t \in DOMAIN loops : LoopAcceptError(t)

Handler(scripts) ==
    \/ \E c \in DOMAIN conns : ReadRequest(c)
    \/ \E c \in DOMAIN conns : Dispatch(c)
    \/ \E c \in DOMAIN conns : ConnectUpstream(c, scripts)
    \/ \E c \in DOMAIN conns : SendRequest(c)
    \/ \E c \in DOMAIN conns : ReadResponse(c)
    \/ \E c \in DOMAIN conns : ForwardResponse(c)
    \/ \E c \in DOMAIN conns : Join(c)

HandlerHttp ==
    \/ \E c \in DOMAIN conns : SendBody(c)
    \/ \E c \in DOMAIN conns : StreamResponse(c)

Relay ==
    \/ \E c \in DOMAIN conns, d \in {1, 2} : RelayRecvCall(c, d)
    \/ \E c \in DOMAIN conns, d \in {1, 2} : RelayRecvReturn(c, d)
    \/ \E c \in DOMAIN conns, d \in {1, 2} : RelaySend(c, d)

Peers ==
    \/ \E c \in DOMAIN conns : ClientEof(c)
    \/ \E c \in DOMAIN conns : ClientReset(c)
    \/ \E c \in DOMAIN conns : UpstreamEof(c)
    \/ \E c \in DOMAIN conns : UpstreamReset(c)

\* the listener's life cycle: start / stop calls, accept threads, and up to
\* MaxConns CONNECT connections in flight
Next ==
    \/ Start({CfgAnon})
    \/ Stop
    \/ AcceptLoop(PlansListener, Len(conns) < MaxConns)
    \/ Handler(ScriptsListener)
    \/ Relay

Spec == Init /\ [][Next]_vars

\* one connection through a started listener, over every modelled request
\* and every modelled upstream behaviour
NextConn ==
    \/ Start(Configs)
    \/ AcceptLoop(PlansAll, conns = <<>>)
    \/ Handler(ScriptsAll)
    \/ HandlerHttp
    \/ Relay
    \/ Peers

SpecConn == Init /\ [][NextConn]_vars

\* two CONNECT connections side by side
NextPair ==
    \/ Start({CfgAuth})
    \/ AcceptLoop(PlansPair, Len(conns) + 1 \in TunnelPair)
    \/ Handler(ScriptsPair)
    \/ Relay
    \/ \E c \in DOMAIN conns : ClientReset(c)
    \/ \E c \in DOMAIN conns : UpstreamEof(c)

SpecPair == Init /\ [][NextPair]_vars

(***************************************************************************)
(* The header rewriting as the handlers call it (lines 206 and 267, with   *)
(* line 338), applied to requests assembled from a request line, up to     *)
(* MaxHeaders header lines, the blank line and an optional body            *)
(***************************************************************************)
MaxHeaders == 2

RequestLineChoices == { <<"G","E","T"," ","h","t","t","p",":","/","/","h","/"," ","V">>, <<"C","O","N","N","E","C","T"," ","h",":","4"," ","V">> }
HeaderChoices == { <<"H","o","s","t",":"," ","h">>,
                   <<"P","r","o","x","y","-","A","u","t","h","o","r","i","z","a","t","i","o","n",":"," ","F","o","o">>,
                   <<"P","R","O","X","Y","-","A","U","T","H","O","R","I","Z","A","T","I","O","N",":"," ","B","a","r">>,
                   <<"p","r","o","x","y","-","a","u","t","h","o","r","i","z","a","t","i","o","n",":","b","a","z">>,
                   <<"X","-","P","r","o","x","y","-","A","u","t","h","o","r","i","z","a","t","i","o","n",":"," ","q">> }
BodyChoices == { <<>>, <<"B">>, <<"P","r","o","x","y","-","A","u","t","h","o","r","i","z","a","t","i","o","n",":"," ","B","o","d","y","\r","\n","C">> }
UsernameChoices == { None, <<>>, <<"u">> }
PasswordChoices == { None, <<>>, <<"p">> }

HeaderLists == UNION { [1..n -> HeaderChoices] : n \in 0..MaxHeaders }

RECURSIVE JoinLines(_)
JoinLines(hs) == IF hs = <<>> THEN <<>> ELSE Head(hs) \o CRLF \o JoinLines(Tail(hs))

RawRequests == { rl \o CRLF \o JoinLines(hs) \o CRLF \o body :
                    rl \in RequestLineChoices, hs \in HeaderLists, body \in BodyChoices }

InitInject ==
    /\ _wrapper_server = NoId
    /\ _wrapper_port = NoId
    /\ _wrapper_thread = NoId
    /\ socks = <<>>
    /\ loops = <<>>
    /\ conns = <<>>
    /\ callers = [k \in Callers |-> [pc |-> "idle", op |-> "none", cfg |-> CfgAnon]]
    /\ ret = NoReturn
    /\ \E raw \in RawRequests, u \in UsernameChoices, pw \in PasswordChoices :
          fn = [raw |-> raw, username |-> u, password |-> pw, out |-> <<>>, done |-> FALSE]

\* modified = _inject_auth_header(lines, _build_auth_header(proxy_config))
Rewrite ==
    /\ ~fn.done
    /\ fn' = [fn EXCEPT
                !.out = _inject_auth_header(RequestLines(fn.raw),
                            _build_auth_header(fn.username, fn.password)),
                !.done = TRUE]
    /\ UNCHANGED << _wrapper_server, _wrapper_port, _wrapper_thread, socks, loops,
                    conns, callers, ret >>

NextInject == Rewrite

SpecInject == InitInject /\ [][NextInject]_vars

(***************************************************************************)
(* Properties of the listener (specification Spec)                         *)
(***************************************************************************)
\* C1: a start call that returns right after another start call returned
\* (no stop in between) returns the same endpoint URL, and the listening
\* sockets, the recorded server socket and the accept threads are those that
\* existed when the first call returned: nothing was bound or started.
C1_StartIdempotent ==
    (ret.op = "start" /\ ret.pop = "start") =>
        /\ ret.url = ret.purl
        /\ ret.lsn = ret.plsn
        /\ ret.srv = ret.psrv
        /\ ret.thr = ret.pthr

\* a second start call has returned while the wrapper was started
C1_Witness ==
    /\ ret.op = "start"
    /\ ret.pop = "start"
    /\ IsOpen(socks, _wrapper_server)
    /\ Cardinality(ret.lsn) = 1

\* C2: an accept thread that a completed stop was meant to end never accepts
\* another connection, whatever is called later (a later start included).
C2_NoAcceptAfterStop ==
    \A c \in DOMAIN conns : ~conns[c].afterStop

\* the sockets and the handler / relay state of connection c
ConnView(c) ==
    << conns[c], socks[conns[c].cs],
       IF conns[c].ps = NoId THEN socks[conns[c].cs] ELSE socks[conns[c].ps] >>

\* a step of stop_proxy_wrapper
StopStep ==
    \E k \in Callers :
        \/ callers[k].pc = "idle" /\ callers'[k].pc = "clear"
        \/ callers[k].pc = "clear" /\ callers'[k].pc = "idle"

\* C3: no step of stop_proxy_wrapper closes a client or upstream socket or
\* changes the state of a handler or relay thread of an accepted connection.
C3_StopLeavesConnections ==
    [][StopStep => \A c \in DOMAIN conns : ConnView(c)' = ConnView(c)]_vars

\* stop has returned while a tunnel is still relaying on open sockets
C3_Witness ==
    /\ ret.op = "stop"
    /\ _wrapper_server = NoId
    /\ \E c \in DOMAIN conns :
          /\ conns[c].pc = "join"
          /\ conns[c].relay[1].pc = "blocked"
          /\ IsOpen(socks, conns[c].cs)
          /\ IsOpen(socks, conns[c].ps)
          /\ ~IsOpen(socks, conns[c].lsn)

(***************************************************************************)
(* Properties of one connection (specification SpecConn)                   *)
(***************************************************************************)
\* the host a request line is addressed to: for CONNECT the target up to its
\* last colon (brackets of an IPv6 literal removed), else the URL's hostname
AddressedHost(line0) ==
    IF MethodOf(line0) = CONNECT
    THEN LET target == TargetOf(line0)
             k == RFind(target, <<":">>)
             host == IF k = -1 THEN target ELSE Upto(target, k)
         IN  IF StartsWith(host, <<"[">>) /\ EndsWith(host, <<"]">>)
             THEN SubSeq(host, 2, Len(host) - 1)
             ELSE host
    ELSE UrlHostname(TargetOf(line0))

\* the request line of connection c once the handler has parsed it
RequestLine(c) == RequestLines(conns[c].request)[1]
Parsed(c) == conns[c].pc \notin {"read", "dispatch"} /\ RequestLine(c) # <<>>

\* C4: a request whose extracted hostname matches the bypass matcher, and in
\* particular every request addressed to localhost, 127.0.0.1 or ::1, is
\* answered with 502, the client socket is closed and no upstream socket is
\* ever opened for it.
C4_BypassNeverUpstream ==
    \A c \in DOMAIN conns :
        ( /\ Parsed(c)
          /\ \/ _should_bypass_proxy(HostnameOf(RequestLine(c)), conns[c].cfg.no_proxy)
             \/ AddressedHost(RequestLine(c)) \in {Localhost, Loopback4, Loopback6} )
        => /\ conns[c].ps = NoId
           /\ conns[c].errs = << 502 >>
           /\ ~IsOpen(socks, conns[c].cs)
           /\ conns[c].pc = "done"

\* the tunnel of connection c was established: the relay threads were started
Tunnel(c) == conns[c].relay[1].pc # "idle"

\* C5: in an established tunnel, what has been written to the upstream after
\* the rewritten CONNECT request is a prefix of what was read from the client
\* after the request, and what has been written to the client is a prefix of
\* what was read from the upstream, the response head first.
C5_TunnelPrefix ==
    \A c \in DOMAIN conns :
        Tunnel(c) =>
            LET r == conns[c]
            IN  /\ IsPrefix(r.modified, r.pout)
                /\ IsPrefix(From(r.pout, Len(r.modified)), From(r.cread, Len(r.request)))
                /\ IsPrefix(r.response, r.cout)
                /\ IsPrefix(r.cout, r.pread)

\* a tunnel has carried payload in both directions
C5_Witness ==
    \E c \in DOMAIN conns :
        /\ Tunnel(c)
        /\ Len(conns[c].pout) > Len(conns[c].modified) + 1
        /\ Len(conns[c].cout) > Len(conns[c].response) + 1

\* the upstream's reply to the CONNECT was read and has no 200 in its head,
\* and the handler has returned
Rejected(c) ==
    /\ conns[c].kind = "connect"
    /\ conns[c].pc = "done"
    /\ conns[c].exc \in {"none", "client_error"}
    /\ ~Established(conns[c].response)

\* C6: when the upstream's reply to a CONNECT has no 200 in its head, the
\* handler ends with the client socket and the upstream socket closed, no
\* relay thread was started, and the client received nothing but the
\* forwarded reply.
C6_RejectedClosesBoth ==
    \A c \in DOMAIN conns :
        Rejected(c) =>
            /\ ~IsOpen(socks, conns[c].cs)
            /\ ~IsOpen(socks, conns[c].ps)
            /\ ~Tunnel(c)
            /\ IsPrefix(conns[c].cout, conns[c].response)

\* the client can still be written to
ClientReachable(c) == conns[c].cpeer # "reset"

\* C7: when the upstream connect, send or read of the handshake times out,
\* exactly one error response, a 504, is written to the client (and arrives
\* if the client is still there), the upstream socket is closed, and no
\* relay thread is started.
C7_TimeoutGives504 ==
    \A c \in DOMAIN conns :
        (conns[c].pc = "done" /\ conns[c].exc = "up_timeout") =>
            /\ conns[c].errs = << 504 >>
            /\ ClientReachable(c) =>
                  EndsWith(conns[c].cout, ErrorResponse(504, ReasonGatewayTimeout))
            /\ conns[c].ps # NoId
            /\ ~IsOpen(socks, conns[c].ps)
            /\ ~Tunnel(c)

\* a timed-out CONNECT handshake whose client got the 504
C7_Witness ==
    \E c \in DOMAIN conns :
        /\ conns[c].pc = "done"
        /\ conns[c].exc = "up_timeout"
        /\ conns[c].kind = "connect"
        /\ conns[c].cout = ErrorResponse(504, ReasonGatewayTimeout)

\* C8: when the upstream connect, send or read fails with an error that is
\* not a timeout, exactly one error response, a 502, is written to the
\* client (and arrives if the client is still there), and the handler has
\* made a single connect attempt.
C8_ErrorGives502 ==
    \A c \in DOMAIN conns :
        (conns[c].pc = "done" /\ conns[c].exc = "up_error") =>
            /\ conns[c].errs = << 502 >>
            /\ ClientReachable(c) =>
                  EndsWith(conns[c].cout, ErrorResponse(502, ReasonBadGateway))
            /\ conns[c].nconnect = 1
            /\ Cardinality({ i \in DOMAIN socks : socks[i].kind = "upstream" }) = 1

\* an upstream that reset the connection during a plain-HTTP exchange
C8_Witness ==
    \E c \in DOMAIN conns :
        /\ conns[c].pc = "done"
        /\ conns[c].exc = "up_error"
        /\ conns[c].kind = "http"
        /\ conns[c].ppeer = "reset"
        /\ ClientReachable(c)

(***************************************************************************)
(* Property of the header rewriting (specification SpecInject)             *)
(***************************************************************************)
\* the Proxy-Authorization header lines (in any letter case) of a request
\* text, the request line excluded
ProxyAuthLines(text) ==
    SelectSeq(Tail(Split(text, CRLF)),
              LAMBDA line : StartsWith(Lower(line), ProxyAuthPrefix))

\* both a username and a password are configured
HasCredentials == Truthy(fn.username) /\ Truthy(fn.password)

\* base64 of "u:p" is "dTpw"
FreshHeaderUP == <<"P","r","o","x","y","-","A","u","t","h","o","r","i","z","a","t","i","o","n",":"," ","B","a","s","i","c"," ","d","T","p","w">>

\* C9: the request forwarded upstream has at most one Proxy-Authorization
\* header: exactly one, with the value computed from the credentials, when
\* credentials are configured, and none when they are not; a header of that
\* name sent by the client, in any letter case, is not forwarded.
C9_OneFreshProxyAuth ==
    fn.done =>
        /\ Len(ProxyAuthLines(fn.out)) <= 1
        /\ HasCredentials => ProxyAuthLines(fn.out) = << FreshHeaderUP >>
        /\ ~HasCredentials => ProxyAuthLines(fn.out) = << >>
        /\ EndsWith(fn.out, CRLFCRLF)

\* a request with two client-supplied headers of that name was rewritten
C9_Witness ==
    /\ fn.done
    /\ HasCredentials
    /\ Len(ProxyAuthLines(fn.raw)) = 2
    /\ Contains(fn.raw, <<"P","R","O","X","Y","-","A","U","T","H","O","R","I","Z","A","T","I","O","N",":"," ","B","a","r">>)

(***************************************************************************)
(* Property of two simultaneous tunnels (specification SpecPair)           *)
(***************************************************************************)
\* C10: no step changes two connections: whatever happens on one tunnel (a
\* socket closed, a peer failing, bytes relayed) leaves the sockets, the
\* byte streams and the threads of every other connection as they were, and
\* the configuration a connection reads never changes.
C10_TunnelsIndependent ==
    [][ \A c \in DOMAIN conns :
           /\ conns'[c].cfg = conns[c].cfg
           /\ ConnView(c)' # ConnView(c) =>
                 \A d \in DOMAIN conns \ {c} : ConnView(d)' = ConnView(d) ]_vars

\* one tunnel is over, its sockets closed, and the other still relays on
\* open sockets and has delivered payload
C10_Witness ==
    \E c \in DOMAIN conns, d \in DOMAIN conns :
        /\ c # d
        /\ Tunnel(c)
        /\ conns[c].pc = "done"
        /\ ~IsOpen(socks, conns[c].cs)
        /\ ~IsOpen(socks, conns[c].ps)
        /\ conns[d].pc = "join"
        /\ IsOpen(socks, conns[d].cs)
        /\ IsOpen(socks, conns[d].ps)
        /\ Len(conns[d].cout) > Len(conns[d].response)

(***************************************************************************)
(* The bypass matcher as handle_client calls it (line 332), applied to     *)
(* hostnames and to NO_PROXY lists of up to MaxPatterns patterns.  The     *)
(* patterns are those get_proxy_config builds (line 78): stripped and      *)
(* non-empty.                                                              *)
(***************************************************************************)
MaxPatterns == 2

HostnameChoices == { <<"l","o","c","a","l","h","o","s","t">>,
                     <<"1","2","7",".","0",".","0",".","1">>,
                     <<":",":","1">>,
                     <<"L","O","C","A","L","H","O","S","T">>,
                     <<"s","u","b",".","e","x","a","m","p","l","e",".","c","o","m">>,
                     <<"e","x","a","m","p","l","e",".","c","o","m">>,
                     <<"n","o","t","e","x","a","m","p","l","e",".","c","o","m">>,
                     <<"S","u","b",".","E","x","a","m","p","l","e",".","C","O","M">>,
                     <<"1","0",".","0",".","0",".","1">>,
                     <<"1","0",".","0",".","0",".","1","1">>,
                     <<"0",":","0",":","0",":","0",":","0",":","0",":","0",":","1">>,
                     <<>>,
                     <<"h">> }
PatternChoices == { <<"*">>,
                    <<".","e","x","a","m","p","l","e",".","c","o","m">>,
                    <<"e","x","a","m","p","l","e",".","c","o","m">>,
                    <<".","E","X","A","M","P","L","E",".","c","o","m">>,
                    <<"1","0",".","0",".","0",".","1">>,
                    <<"0",":",":","1">>,
                    <<"H">>,
                    <<".">> }
PatternLists == UNION { [1..n -> PatternChoices] : n \in 0..MaxPatterns }

InitBypass ==
    /\ _wrapper_server = NoId
    /\ _wrapper_port = NoId
    /\ _wrapper_thread = NoId
    /\ socks = <<>>
    /\ loops = <<>>
    /\ conns = <<>>
    /\ callers = [k \in Callers |-> [pc |-> "idle", op |-> "none", cfg |-> CfgAnon]]
    /\ ret = NoReturn
    /\ \E h \in HostnameChoices, np \in PatternLists :
          fn = [hostname |-> h, no_proxy |-> np, out |-> FALSE, done |-> FALSE]

\* line 332: _should_bypass_proxy(hostname, proxy_config)
Match ==
    /\ ~fn.done
    /\ fn' = [fn EXCEPT !.out = _should_bypass_proxy(fn.hostname, fn.no_proxy),
                        !.done = TRUE]
    /\ UNCHANGED << _wrapper_server, _wrapper_port, _wrapper_thread, socks, loops,
                    conns, callers, ret >>

NextBypass == Match

SpecBypass == InitBypass /\ [][NextBypass]_vars

(***************************************************************************)
(* Properties of the bypass matcher (specification SpecBypass)             *)
(***************************************************************************)
\* the five bypass rules, as stated
RuleLoopback(h) == h \in { <<"l","o","c","a","l","h","o","s","t">>, <<"1","2","7",".","0",".","0",".","1">>, <<":",":","1">> }
RuleWildcard(p) == p = <<"*">>
RuleSameAddress(h, p) ==
    /\ ip_address(h) # None
    /\ ip_address(p) # None
    /\ ip_address(h) = ip_address(p)
RuleSuffix(h, p) ==
    /\ p # <<>>
    /\ p[1] = "."
    /\ \/ \E k \in 0..Len(h) :
             Lower(SubSeq(h, k + 1, Len(h))) = Lower(p)
       \/ Lower(h) = Lower(SubSeq(p, 2, Len(p)))
RuleExact(h, p) == Lower(h) = Lower(p)
BypassRules(h, np) ==
    \/ RuleLoopback(h)
    \/ \E i \in 1..Len(np) :
          \/ RuleWildcard(np[i])
          \/ RuleSameAddress(h, np[i])
          \/ RuleSuffix(h, np[i])
          \/ RuleExact(h, np[i])

DotExampleCom == <<".","e","x","a","m","p","l","e",".","c","o","m">>

\* C11: _should_bypass_proxy returns true exactly when one of the five rules
\* holds (loopback name, a * pattern, equal IP literals, a dotted suffix
\* pattern, a case-insensitive exact pattern) and false otherwise; with the
\* pattern .example.com the hosts sub.example.com and example.com bypass and
\* notexample.com does not.
C11_BypassRules ==
    fn.done =>
        /\ fn.out = BypassRules(fn.hostname, fn.no_proxy)
        /\ fn.no_proxy = << DotExampleCom >> =>
              /\ fn.hostname \in { <<"s","u","b",".","e","x","a","m","p","l","e",".","c","o","m">>, <<"e","x","a","m","p","l","e",".","c","o","m">> } => fn.out
              /\ fn.hostname = <<"n","o","t","e","x","a","m","p","l","e",".","c","o","m">> => ~fn.out

\* the matcher has refused notexample.com under the pattern .example.com
C11_Witness ==
    /\ fn.done
    /\ fn.no_proxy = << DotExampleCom >>
    /\ fn.hostname = <<"n","o","t","e","x","a","m","p","l","e",".","c","o","m">>
    /\ ~fn.out

(***************************************************************************)
(* Properties of request parsing (specification SpecConn)                  *)
(***************************************************************************)
\* a request line that is empty or names no target
Garbled(line0) == TargetOf(line0) = <<>>

\* C12: a request whose request line is empty or garbled (no target) is
\* answered with 400 Bad Request, the client socket is closed after the
\* response, and no upstream socket is opened.
C12_GarbledGets400 ==
    \A c \in DOMAIN conns :
        ( /\ conns[c].request # <<>>
          /\ conns[c].pc \notin {"read", "dispatch"}
          /\ Garbled(RequestLine(c)) )
        => /\ conns[c].ps = NoId
           /\ conns[c].errs = << 400 >>
           /\ ~IsOpen(socks, conns[c].cs)
           /\ conns[c].pc = "done"

\* the header read loop of connection c ended at end-of-stream (not on a
\* socket error) before the header terminator was read
EofBeforeHeader(c) ==
    /\ conns[c].pc \notin {"read", "dispatch"}
    /\ ~Contains(conns[c].request, CRLFCRLF)
    /\ ~(conns[c].kind = "none" /\ conns[c].exc = "client_error")

\* C13: when the client reaches end-of-stream before a complete header block
\* was read (zero bytes or a partial header), nothing is written to the
\* client, no upstream socket is opened and nothing is sent upstream.
C13_EofBeforeHeaderDropped ==
    \A c \in DOMAIN conns :
        EofBeforeHeader(c) =>
            /\ conns[c].cout = <<>>
            /\ conns[c].errs = <<>>
            /\ conns[c].ps = NoId
            /\ conns[c].pout = <<>>

\* the header block of a request (terminator excluded) and the bytes read
\* past the terminator
HeaderBlock(request) == Upto(request, Find(request, CRLFCRLF))
BufferedBody(request) == From(request, Find(request, CRLFCRLF) + 4)
HasBufferedBody(request) ==
    Contains(request, CRLFCRLF) /\ BufferedBody(request) # <<>>

\* C14: for a non-CONNECT request read past its header terminator, the bytes
\* sent upstream are the rewritten header block (request line, kept header
\* lines, optional Proxy-Authorization, blank line) followed by the buffered
\* body bytes, each once and unmodified, none of them in the header block.
C14_BodyAfterHeader ==
    \A c \in DOMAIN conns :
        ( /\ conns[c].kind = "http"
          /\ conns[c].pc = "stream"
          /\ HasBufferedBody(conns[c].request) )
        => conns[c].pout =
              _inject_auth_header(
                  RequestLines(HeaderBlock(conns[c].request)),
                  _build_auth_header(conns[c].cfg.username, conns[c].cfg.password))
              \o BufferedBody(conns[c].request)

\* C15: for a CONNECT request with a target host:port, the hostname given to
\* the bypass matcher is the target up to its last colon, also when the host
\* part itself contains colons (an IPv6 literal).
C15_HostBeforeLastColon ==
    \A c \in DOMAIN conns :
        ( /\ Parsed(c)
          /\ MethodOf(RequestLine(c)) = CONNECT
          /\ Contains(TargetOf(RequestLine(c)), <<":">>) )
        => HostnameOf(RequestLine(c)) =
              Upto(TargetOf(RequestLine(c)), RFind(TargetOf(RequestLine(c)), <<":">>))

(***************************************************************************)
(* Properties of the tunnel (specification SpecConn)                       *)
(***************************************************************************)
\* neither peer of connection c has closed, shut down or reset its side
PeersSilentOrSending(c) == conns[c].cpeer = "open" /\ conns[c].ppeer = "open"

\* C16: once the tunnel is established no timeout applies to the relay: a
\* relay direction stops only at end-of-stream or when a peer closed or
\* errored, so while both peers stay connected (sending or silent) both
\* relay threads are alive.
C16_NoRelayTimeout ==
    \A c \in DOMAIN conns :
        (Tunnel(c) /\ PeersSilentOrSending(c)) =>
            /\ conns[c].relay[1].pc # "done"
            /\ conns[c].relay[2].pc # "done"

\* the CONNECT handler of connection c has forwarded the upstream's response
\* head and taken the establishment decision
Decided(c) ==
    /\ conns[c].kind = "connect"
    /\ conns[c].pc \in {"join", "done"}
    /\ conns[c].exc = "none"

\* the CONNECT request of connection c as it is to be sent upstream: its
\* header lines rewritten, nothing of what the client sent after them
RewrittenConnect(c) ==
    _inject_auth_header(RequestLines(HeaderBlock(conns[c].request)),
                        _build_auth_header(conns[c].cfg.username, conns[c].cfg.password))

\* C17: in the CONNECT handler the upstream's response head is forwarded to
\* the client verbatim before the establishment decision, in both outcomes;
\* the relay threads are started if and only if 200 occurs in the first 50
\* bytes of that response; and until the decision no client byte other than
\* the rewritten CONNECT request is sent upstream.
C17_HeadThenDecision ==
    \A c \in DOMAIN conns :
        /\ Decided(c) =>
              /\ IsPrefix(conns[c].response, conns[c].pread)
              /\ IsPrefix(conns[c].response, conns[c].cout)
              /\ Tunnel(c) <=> Established(conns[c].response)
        /\ Tunnel(c) => Decided(c) /\ Established(conns[c].response)
        /\ ( /\ conns[c].kind = "connect"
             /\ ~Tunnel(c)
             /\ Contains(conns[c].request, CRLFCRLF) )
           => IsPrefix(conns[c].pout, RewrittenConnect(c))

\* C18: for an established tunnel the CONNECT handler returns only after both
\* relay threads have finished, and then the client socket and the upstream
\* socket are closed; a relay direction that has stopped has closed both
\* sockets, and closing a socket the other direction already closed raises
\* nothing: no error response is produced.
C18_JoinThenBothClosed ==
    \A c \in DOMAIN conns :
        Tunnel(c) =>
            /\ conns[c].pc = "done" =>
                  /\ conns[c].relay[1].pc = "done"
                  /\ conns[c].relay[2].pc = "done"
            /\ \A d \in {1, 2} :
                  conns[c].relay[d].pc = "done" =>
                      /\ ~IsOpen(socks, conns[c].cs)
                      /\ ~IsOpen(socks, conns[c].ps)
            /\ conns[c].exc = "none"
            /\ conns[c].errs = <<>>

\* a tunnel that ended because the client finished sending: the handler has
\* returned after both relay threads closed the two sockets
C18_Witness ==
    \E c \in DOMAIN conns :
        /\ Tunnel(c)
        /\ conns[c].pc = "done"
        /\ conns[c].cpeer = "eof"
        /\ conns[c].ppeer = "open"
        /\ Len(conns[c].pout) > Len(conns[c].modified)

(***************************************************************************)
(* Properties of the plain-HTTP handler (specification SpecConn)           *)
(***************************************************************************)
\* C19: the plain-HTTP handler ends with the client socket and the upstream
\* socket (if opened) closed on every path: upstream end-of-stream, timeout
\* (504) and any other socket error (502); and the upstream's response
\* bytes are streamed to the client unmodified and in order until the
\* upstream closes.
C19_HttpClosesBoth ==
    \A c \in DOMAIN conns :
        conns[c].kind = "http" =>
            /\ conns[c].pc = "done" =>
                  /\ ~IsOpen(socks, conns[c].cs)
                  /\ conns[c].ps # NoId => ~IsOpen(socks, conns[c].ps)
                  /\ conns[c].exc = "up_timeout" => conns[c].errs = << 504 >>
                  /\ conns[c].exc \in {"up_error", "client_error"} =>
                        conns[c].errs = << 502 >>
                  /\ conns[c].exc = "none" =>
                        conns[c].errs = <<>> /\ conns[c].cout = conns[c].pread
            /\ conns[c].errs = <<>> => IsPrefix(conns[c].cout, conns[c].pread)

\* a plain-HTTP exchange streamed in several chunks until the upstream closed
C19_Witness ==
    \E c \in DOMAIN conns :
        /\ conns[c].kind = "http"
        /\ conns[c].pc = "done"
        /\ conns[c].exc = "none"
        /\ conns[c].ppeer = "eof"
        /\ conns[c].cout = Resp200 \o <<"Y","Z">>

(***************************************************************************)
(* Property of the accept loop (specification SpecPair)                    *)
(***************************************************************************)
\* C20: the accept loop never waits on client or upstream I/O: whatever the
\* states of the connections accepted so far, a loop at the top of its
\* iteration can go on to accept, a loop in accept() on an open listening
\* socket can take the next connection, and every connection it accepted
\* was handed to a handler of its own.
C20_AcceptNeverBlocks ==
    \A t \in DOMAIN loops :
        /\ loops[t].pc \in {"top", "accepting", "died", "exited"}
        /\ loops[t].pc = "top" => ENABLED LoopTop(t)
        /\ (loops[t].pc = "accepting" /\ IsOpen(socks, loops[t].sock)) =>
              ENABLED LoopAccept(t, PlansPair)
        /\ loops[t].accepted = Cardinality({ c \in DOMAIN conns : conns[c].loop = t })

\* a second connection was accepted and is connecting upstream while the
\* first one is relaying, and the loop is in accept() again
C20_Witness ==
    /\ Len(conns) = 2
    /\ conns[1].pc = "join"
    /\ conns[1].relay[1].pc = "blocked"
    /\ conns[2].pc = "connect"
    /\ \E t \in DOMAIN loops :
          /\ loops[t].pc = "accepting"
          /\ loops[t].accepted = 2
          /\ IsOpen(socks, loops[t].sock)

\* a pattern list with every pattern upper-cased / lower-cased
UpperPatterns(np) == [i \in DOMAIN np |-> Upper(np[i])]
LowerPatterns(np) == [i \in DOMAIN np |-> Lower(np[i])]

\* C21: bypass matching is case-insensitive in hostname and patterns: the
\* result is the same for the hostname, its upper-cased and its lower-cased
\* copy, and the same when the patterns are replaced by differently-cased
\* copies; and a pattern that is an IP literal matches a hostname that is an
\* IP literal only when the two addresses are equal.
C21_CaseInsensitive ==
    fn.done =>
        /\ fn.out = _should_bypass_proxy(Upper(fn.hostname), fn.no_proxy)
        /\ fn.out = _should_bypass_proxy(Lower(fn.hostname), fn.no_proxy)
        /\ fn.out = _should_bypass_proxy(fn.hostname, UpperPatterns(fn.no_proxy))
        /\ fn.out = _should_bypass_proxy(fn.hostname, LowerPatterns(fn.no_proxy))
        /\ ( /\ fn.out
             /\ ~RuleLoopback(fn.hostname)
             /\ ip_address(fn.hostname) # None
             /\ \A i \in DOMAIN fn.no_proxy : ip_address(fn.no_proxy[i]) # None )
           => \E i \in DOMAIN fn.no_proxy :
                 ip_address(fn.no_proxy[i]) = ip_address(fn.hostname)

(***************************************************************************)
(* Properties of every handler path (specification SpecConn)               *)
(***************************************************************************)
\* the handler of connection c met a fault that no 400 / 502 / 504 path
\* catches: the read of the request failed on the client socket
UnmappedFault(c) == conns[c].kind = "none" /\ conns[c].exc = "client_error"

\* C22: a fault that is not mapped to 400, 502 or 504 ends in one best-effort
\* 500 response and a closed client socket; a failed write of that response
\* is swallowed, and the handler terminates normally.  A 500 is produced by
\* such a fault only.
C22_UnmappedFaultGives500 ==
    \A c \in DOMAIN conns :
        /\ UnmappedFault(c) =>
              /\ conns[c].pc = "done"
              /\ conns[c].errs = << 500 >>
              /\ ~IsOpen(socks, conns[c].cs)
              /\ conns[c].ps = NoId
              /\ \/ conns[c].cout = <<>>
                 \/ IsPrefix(conns[c].cout, ErrorResponse(500, ReasonInternal))
        /\ (\E i \in DOMAIN conns[c].errs : conns[c].errs[i] = 500) => UnmappedFault(c)

\* the client connection was reset after part of the request was read: the
\* 500 could not be written, and the handler ended with the socket closed
C22_Witness ==
    \E c \in DOMAIN conns :
        /\ UnmappedFault(c)
        /\ conns[c].pc = "done"
        /\ conns[c].request # <<>>
        /\ conns[c].cout = <<>>
        /\ ~IsOpen(socks, conns[c].cs)

\* C23: whenever handle_client has returned, on every path, the client socket
\* of the connection is closed and the upstream socket, if one was opened,
\* is closed too.
C23_NoSocketOutlivesHandler ==
    \A c \in DOMAIN conns :
        conns[c].pc = "done" =>
            /\ ~IsOpen(socks, conns[c].cs)
            /\ conns[c].ps # NoId => ~IsOpen(socks, conns[c].ps)

\* the error responses the wrapper synthesizes
ErrorResponses ==
    { ErrorResponse(400, ReasonBadRequest), ErrorResponse(502, ReasonBadGateway),
      ErrorResponse(502, ReasonDirect), ErrorResponse(504, ReasonGatewayTimeout),
      ErrorResponse(500, ReasonInternal) }

\* C24: on one connection at most one synthesized error response is written,
\* and only if no upstream bytes were forwarded to the client: what the
\* client has received is either (part of) one error response or (part of)
\* the upstream's bytes, never an error response after upstream bytes.
C24_OneErrorNeverAfterUpstream ==
    \A c \in DOMAIN conns :
        /\ Len(conns[c].errs) <= 1
        /\ conns[c].errs # <<>> =>
              \/ IsPrefix(conns[c].cout, conns[c].pread)
              \/ \E e \in ErrorResponses : IsPrefix(conns[c].cout, e)

(***************************************************************************)
(* One tunnel under fair scheduling of its threads.  The handler thread    *)
(* and the two relay threads take their next step whenever they can.  A    *)
(* recv that is blocked returns when the peer's bytes, end-of-stream or    *)
(* reset arrive or the socket's timeout expires; whether it also returns   *)
(* because another thread closed the socket object under it is left to     *)
(* the platform, and is not assumed.  The peers are under no obligation:   *)
(* a silent peer may stay silent.                                          *)
(***************************************************************************)
PlansLive == { << ReqConnect, <<"P">> >> }
ScriptsLive == { << Resp200, <<"Y">> >> }

NextLive ==
    \/ Start({CfgAnon})
    \/ AcceptLoop(PlansLive, conns = <<>>)
    \/ Handler(ScriptsLive)
    \/ Relay
    \/ \E c \in DOMAIN conns : ClientEof(c)
    \/ \E c \in DOMAIN conns : UpstreamEof(c)

\* the blocked recv of relay thread d has something to return: the upstream
\* socket carries a timeout, the client socket waits for the client
RecvCompletes(c, d) ==
    \/ d = 2
    \/ conns[c].cplan # <<>>
    \/ conns[c].cpeer # "open"

\* a step of relay thread d of connection c that the scheduler owes it
RelayThreadStep(c, d) ==
    /\ c \in DOMAIN conns
    /\ \/ RelayRecvCall(c, d)
       \/ RelaySend(c, d)
       \/ RecvCompletes(c, d) /\ RelayRecvReturn(c, d)

\* the handler thread of connection c returning from the two joins
HandlerThreadStep(c) == c \in DOMAIN conns /\ Join(c)

FairThreads ==
    \A c \in {1} :
        /\ WF_vars(HandlerThreadStep(c))
        /\ \A d \in {1, 2} : WF_vars(RelayThreadStep(c, d))

SpecLive == Init /\ [][NextLive]_vars /\ FairThreads

(***************************************************************************)
(* Property of the tunnel's end (specification SpecLive)                   *)
(***************************************************************************)
\* C25: in an established tunnel, once either relay direction has stopped,
\* the other direction eventually stops too and the CONNECT handler
\* eventually returns, under fair scheduling of the threads.
C25_TunnelEventuallyEnds ==
    \A c \in {1} :
        ( /\ c \in DOMAIN conns
          /\ Tunnel(c)
          /\ \/ conns[c].relay[1].pc = "done"
             \/ conns[c].relay[2].pc = "done" )
        ~> (c \in DOMAIN conns /\ conns[c].pc = "done")

(***************************************************************************)
(* start_proxy_wrapper and stop_proxy_wrapper called from two threads.     *)
(* The functions take no lock: the test of line 379 (and of line 616) and  *)
(* the assignment of line 384 (and of lines 621-623) are separate steps    *)
(* of a caller, and the steps of the two callers interleave freely.        *)
(***************************************************************************)
Threads == {"main", "other"}

InitRace ==
    /\ _wrapper_server = NoId
    /\ _wrapper_port = NoId
    /\ _wrapper_thread = NoId
    /\ socks = <<>>
    /\ loops = <<>>
    /\ conns = <<>>
    /\ callers = [k \in Threads |-> [pc |-> "idle", op |-> "none", cfg |-> CfgAnon]]
    /\ ret = NoReturn
    /\ fn = NoCall

StartRace ==
    \/ \E k \in Threads : StartCall(k, CfgAnon)
    \/ \E k \in Threads : StartBind(k)
    \/ \E k \in Threads : StartThread(k)
    \/ \E k \in Threads : StartReturn(k)

\* the clients of this scenario connect and close without sending a byte
PlansRace == { PlanNothing }

\* both threads start the wrapper; the main thread also stops it
NextRace ==
    \/ StartRace
    \/ Stop
    \/ AcceptLoop(PlansRace, Len(conns) < MaxConns)
    \/ \E c \in DOMAIN conns : ReadRequest(c)
    \/ \E c \in DOMAIN conns : ClientEof(c)

SpecRace == InitRace /\ [][NextRace]_vars

(***************************************************************************)
(* Property of the listener under concurrent and repeated calls            *)
(* (specification SpecRace)                                                *)
(***************************************************************************)
\* the open listening sockets the program still holds: the one the module
\* global names and those an accept call is waiting on
HeldListeners ==
    { s \in Listeners :
        /\ IsOpen(socks, s)
        /\ \/ s = _wrapper_server
           \/ \E t \in DOMAIN loops : loops[t].pc = "accepting" /\ loops[t].sock = s }

\* the accept loops waiting in accept() on an open listening socket
RunningLoops ==
    { t \in DOMAIN loops : loops[t].pc = "accepting" /\ IsOpen(socks, loops[t].sock) }

\* the recorded port is the port of the recorded listening socket while open
PortRecorded ==
    (_wrapper_server # NoId /\ IsOpen(socks, _wrapper_server))
        => _wrapper_port = socks[_wrapper_server].port

\* C26: under every interleaving of start and stop calls, concurrent calls
\* from different threads and a start after a stop included, at most one
\* open listening socket and at most one running accept loop exist at any
\* time, and the recorded port is the port of the open listening socket
\* whenever the wrapper is recorded as started.
C26_OneListenerOneLoop ==
    /\ Cardinality(HeldListeners) <= 1
    /\ Cardinality(RunningLoops) <= 1
    /\ PortRecorded

====
